---- MODULE Spec2Model ----
(***************************************************************************)
(* ScrapeMaster (src/scraper.py): the crawl orchestrator, its three JSON   *)
(* stores (websites_master.json, websites_completed.json,                  *)
(* websites_errors.json) and the append-only output final_dataset/         *)
(* dataset.jsonl, over a sequence of process runs in one working           *)
(* directory.  A run may be killed at any program position; the files keep *)
(* what was written, the memory of the process is lost.                    *)
(*                                                                         *)
(* A Python dict is modelled as a sequence of [k, v] entries in insertion  *)
(* order, a file as [exists, data].                                        *)
(***************************************************************************)
EXTENDS Integers, Sequences, FiniteSets, TLC

\* ------------------------------------------------------------------ bounds
MaxRuns == 2          \* process runs over the working directory
MaxWebsites == 4      \* --websites ranges over 0..MaxWebsites
MaxLiveRuns == 1      \* process runs followed to their end under fair scheduling
MaxLoadRuns == 1      \* process runs over a working directory with damaged stores
MaxMainRuns == 1      \* process runs with a --topics argument of any kind

\* ------------------------------------------------- the environment's values
\* the URLs the search provider can return, best first
URLs == <<"u1", "u2", "u3">>

\* the URLs the search provider has for a topic, best first: one for topic
\* b, which topic a has too, and all of them for any other topic
SearchIndex(topic) == IF topic = <<"b">> THEN <<"u2">> ELSE URLs

\* --topics argument values, as character sequences
TopicArgs == { <<"a">>, <<"b", ",", " ", "a">> }

\* what a page fetched with status 200 parses to (title, text)
Pages == { [title |-> "", content |-> "c1"], [title |-> "T", content |-> "c2"] }

\* HTTP status codes a fetch may answer with
Statuses == {200, 404}

\* exceptions raised by session.get / response.text / BeautifulSoup, by their
\* type and arguments: the timeout=30 of session.get raises
\* asyncio.TimeoutError(), which has no arguments and prints as ""
RaisedExceptions == { [type |-> "TimeoutError", args |-> <<>>] }

\* ------------------------------------------------------------ Python dicts
EmptyDict == <<>>

Keys(d) == { d[i].k : i \in DOMAIN d }

KeyList(d) == [i \in DOMAIN d |-> d[i].k]

Has(d, key) == key \in Keys(d)

Get(d, key) == d[CHOOSE i \in DOMAIN d : d[i].k = key].v

\* d[key] = val with the key taken out first: an old key moves to the end
PutAtEnd(d, key, val) ==
    Append(SelectSeq(d, LAMBDA e : e.k # key), [k |-> key, v |-> val])

\* d[key] = val: a new key goes to the end, an old key keeps its position
Put(d, key, val) ==
    IF Has(d, key)
    THEN [i \in DOMAIN d |-> IF d[i].k = key THEN [k |-> key, v |-> val] ELSE d[i]]
    ELSE Append(d, [k |-> key, v |-> val])

RECURSIVE PutAllRebuilt(_, _, _)
\* the mapping rebuilt from the urls alone: d = {url: val for url in urls}
PutAllRebuilt(d, urls, val) ==
    IF urls = <<>> THEN EmptyDict
    ELSE Put(PutAllRebuilt(d, SubSeq(urls, 1, Len(urls) - 1), val), urls[Len(urls)], val)

RECURSIVE PutAll(_, _, _)
\* for url in urls: d[url] = val
PutAll(d, urls, val) ==
    IF urls = <<>> THEN d
    ELSE PutAll(Put(d, Head(urls), val), Tail(urls), val)

\* ------------------------------------------------------------------- files
MissingFile == [exists |-> FALSE, data |-> EmptyDict]

\* json.dump(d, f) on open(path, 'w'): the file holds the whole mapping
JsonDump(d) == [exists |-> TRUE, data |-> d]

\* _load_or_create_json
LoadOrCreateJson(file) == IF file.exists THEN file.data ELSE EmptyDict

\* ---------------------------------------------------------------- __init__
RECURSIVE SplitComma(_, _)
\* str.split(','): cur is the piece being read
SplitComma(s, cur) ==
    IF s = <<>> THEN <<cur>>
    ELSE IF Head(s) = "," THEN <<cur>> \o SplitComma(Tail(s), <<>>)
    ELSE SplitComma(Tail(s), Append(cur, Head(s)))

\* the whitespace characters of the strings of the model
Whitespace == {" ", "\n", "\t"}

RECURSIVE LStrip(_)
LStrip(s) == IF s # <<>> /\ Head(s) \in Whitespace THEN LStrip(Tail(s)) ELSE s

RECURSIVE RStrip(_)
RStrip(s) ==
    IF s # <<>> /\ s[Len(s)] \in Whitespace THEN RStrip(SubSeq(s, 1, Len(s) - 1)) ELSE s

\* str.strip()
Strip(s) == RStrip(LStrip(s))

\* [t.strip() for t in topics.split(',')]
TopicList(arg) == LET parts == SplitComma(arg, <<>>)
                  IN  [i \in DOMAIN parts |-> Strip(parts[i])]

\* the quotient rounded up instead of down
UrlsPerTopicRoundedUp(numWebsites, topicList) ==
    (numWebsites + Len(topicList) - 1) \div Len(topicList)

\* num_websites // len(self.topics)
UrlsPerTopic(numWebsites, topicList) == numWebsites \div Len(topicList)

\* ------------------------------------------------------------- topic files
RECURSIVE Text(_)
\* a character sequence as a string
Text(cs) == IF cs = <<>> THEN "" ELSE Head(cs) \o Text(Tail(cs))

\* no parsed document: the file is read as text
NoDoc == [type |-> "none", topics |-> FALSE, items |-> <<>>]

\* the files of the working directory a --topics argument may name: the text
\* of a .txt, .md or other file, the document a .json or .yaml file parses to
\* (its type, whether a dict has the key 'topics', and the list it holds)
TopicFiles ==
    { [path |-> <<"t", ".", "c", "s", "v">>,
       text |-> <<"b", ",", "a", "\n">>, doc |-> NoDoc],
      [path |-> <<"t", ".", "t", "x", "t">>,
       text |-> <<" ", "b", " ", "\n", "\n", "a", "\n">>, doc |-> NoDoc],
      [path |-> <<"c", ".", "t", "x", "t">>,
       text |-> <<"a", ",", "b", "\n">>, doc |-> NoDoc],
      [path |-> <<"e", ".", "t", "x", "t">>,
       text |-> <<"\n">>, doc |-> NoDoc],
      [path |-> <<"t", ".", "m", "d">>,
       text |-> <<"#", " ", "x", "\n", "-", " ", "b", "\n", "*", "a", " ", "\n">>, doc |-> NoDoc],
      [path |-> <<"p", ".", "m", "d">>,
       text |-> <<"a", "\n", "\n", " ", "b">>, doc |-> NoDoc],
      [path |-> <<"t", ".", "j", "s", "o", "n">>,
       text |-> <<>>, doc |-> [type |-> "list", topics |-> FALSE, items |-> << <<"b">>, <<" ", "a">> >>]],
      [path |-> <<"d", ".", "j", "s", "o", "n">>,
       text |-> <<>>, doc |-> [type |-> "dict", topics |-> FALSE, items |-> <<>>]],
      [path |-> <<"t", ".", "y", "m", "l">>,
       text |-> <<>>, doc |-> [type |-> "dict", topics |-> TRUE, items |-> << <<"a">> >>]] }

\* the paths of the topic files
TopicPaths == { f.path : f \in TopicFiles }

\* Path(p).exists()
Exists(p) == p \in TopicPaths

\* the file at an existing path
FileAt(p) == CHOOSE f \in TopicFiles : f.path = p

RECURSIVE Suffix(_)
\* Path(p).suffix of a file name that does not begin or end with a dot: the
\* part from the last dot on, empty when there is none
Suffix(p) ==
    IF p = <<>> THEN <<>>
    ELSE LET rest == Suffix(Tail(p))
         IN  IF rest # <<>> THEN rest
             ELSE IF Head(p) = "." THEN p ELSE <<>>

RECURSIVE ReadLines(_, _)
\* f.readlines(): the lines with their newline; cur is the line being read
ReadLines(s, cur) ==
    IF s = <<>> THEN (IF cur = <<>> THEN <<>> ELSE <<cur>>)
    ELSE IF Head(s) = "\n" THEN <<Append(cur, "\n")>> \o ReadLines(Tail(s), <<>>)
    ELSE ReadLines(Tail(s), Append(cur, Head(s)))

RECURSIVE SplitNewline(_, _)
\* content.split('\n')
SplitNewline(s, cur) ==
    IF s = <<>> THEN <<cur>>
    ELSE IF Head(s) = "\n" THEN <<cur>> \o SplitNewline(Tail(s), <<>>)
    ELSE SplitNewline(Tail(s), Append(cur, Head(s)))

\* [line.strip() for line in lines if line.strip()]
StrippedNonEmpty(lines) ==
    LET kept == SelectSeq(lines, LAMBDA l : Strip(l) # <<>>)
    IN  [i \in DOMAIN kept |-> Strip(kept[i])]

RECURSIVE TakeLine(_)
\* the longest prefix of s without a newline: what (.+) takes
TakeLine(s) ==
    IF s = <<>> \/ Head(s) = "\n" THEN <<>> ELSE <<Head(s)>> \o TakeLine(Tail(s))

RECURSIVE LeadingSpace(_)
\* the number of whitespace characters s begins with
LeadingSpace(s) ==
    IF s # <<>> /\ Head(s) \in Whitespace THEN 1 + LeadingSpace(Tail(s)) ELSE 0

\* s without its first k characters
Drop(s, k) == SubSeq(s, k + 1, Len(s))

\* the match of \s*(.+) at the start of s: \s* takes as much whitespace as
\* leaves (.+) a character that is not a newline
GroupAt(s) ==
    LET ks == { k \in 0..LeadingSpace(s) : TakeLine(Drop(s, k)) # <<>> }
    IN  IF ks = {} THEN [matched |-> FALSE, skip |-> 0, group |-> <<>>]
        ELSE LET k == CHOOSE m \in ks : \A j \in ks : j <= m
             IN  [matched |-> TRUE, skip |-> k, group |-> TakeLine(Drop(s, k))]

RECURSIVE FindAll(_)
\* re.findall(r'[-*]\s*(.+)', s): the groups of the matches, left to right,
\* the scan going on after each match
FindAll(s) ==
    IF s = <<>> THEN <<>>
    ELSE IF Head(s) \in {"-", "*"} /\ GroupAt(Tail(s)).matched
         THEN LET m == GroupAt(Tail(s))
              IN  <<m.group>> \o FindAll(Drop(Tail(s), m.skip + Len(m.group)))
         ELSE FindAll(Tail(s))

\* what a call returns: a list of topics, or the exception it raised
Returned(list) == [raised |-> FALSE, error |-> "", topics |-> list]

Raised(exc) == [raised |-> TRUE, error |-> exc, topics |-> <<>>]

\* the else branch reads the file as a list of lines
LoadTopicsFromFileLenient(p) == Returned(StrippedNonEmpty(ReadLines(FileAt(p).text, <<>>)))

\* load_topics_from_file
LoadTopicsFromFile(p) ==
    IF ~Exists(p) THEN Raised("FileNotFoundError: File not found: " \o Text(p))
    ELSE LET f == FileAt(p)
             suffix == Suffix(p)
         IN  IF suffix = <<".", "j", "s", "o", "n">>
             THEN IF f.doc.type = "list" THEN Returned(f.doc.items)
                  ELSE IF f.doc.type = "dict" /\ f.doc.topics THEN Returned(f.doc.items)
                  ELSE Raised("ValueError: JSON file must contain a list or a dict with 'topics' key")
             ELSE IF suffix \in { <<".", "y", "a", "m", "l">>, <<".", "y", "m", "l">> }
             THEN IF f.doc.type = "list" THEN Returned(f.doc.items)
                  ELSE IF f.doc.type = "dict" /\ f.doc.topics THEN Returned(f.doc.items)
                  ELSE Raised("ValueError: YAML file must contain a list or a dict with 'topics' key")
             ELSE IF suffix = <<".", "t", "x", "t">>
             THEN Returned(StrippedNonEmpty(ReadLines(f.text, <<>>)))
             ELSE IF suffix = <<".", "m", "d">>
             THEN LET found == FindAll(f.text)
                  IN  IF found # <<>>
                      THEN Returned([i \in DOMAIN found |-> Strip(found[i])])
                      ELSE Returned(StrippedNonEmpty(SplitNewline(f.text, <<>>)))
             ELSE Raised("ValueError: Unsupported file format: " \o Text(suffix))

RECURSIVE Join(_)
\* ','.join(list)
Join(list) ==
    IF list = <<>> THEN <<>>
    ELSE IF Len(list) = 1 THEN list[1]
    ELSE list[1] \o <<",">> \o Join(Tail(list))

\* ------------------------------------------------------------------ search
RECURSIVE Pick(_, _, _)
\* the entries of index at the positions P, from position i on, in order
Pick(index, P, i) ==
    IF i > Len(index) THEN <<>>
    ELSE (IF i \in P THEN <<index[i]>> ELSE <<>>) \o Pick(index, P, i + 1)

\* the provider yields entries of its index in rank order, at most n, and may
\* raise after the ones it yielded
SearchOutcomes(topic, n) ==
    { [yielded |-> Pick(SearchIndex(topic), P, 1), raised |-> r] :
        P \in { Q \in SUBSET DOMAIN SearchIndex(topic) : Cardinality(Q) <= n },
        r \in BOOLEAN }

\* the URLs collected before the exception are returned
SearchGoogleSyncPartial(outcome) == outcome.yielded

\* _search_google_sync: the list collected, or [] when the search raised
SearchGoogleSync(outcome) == IF outcome.raised THEN <<>> ELSE outcome.yielded

\* ------------------------------------------------------------------- fetch
None == [type |-> "None"]

\* str(e) of an exception: its single argument, "" when it has none
ExcStr(e) == IF e.args = <<>> THEN "" ELSE e.args[1]

\* raise Exception(f"HTTP {response.status}")
HttpException(status) == [type |-> "Exception", args |-> << "HTTP " \o ToString(status) >>]

\* what one session.get may do: answer with a status (and, for 200, a page
\* that parses), or raise at the request, the read or the parse
FetchOutcomes ==
    { [raised |-> FALSE, status |-> 200, page |-> p, exc |-> None] : p \in Pages }
    \cup { [raised |-> FALSE, status |-> s, page |-> None, exc |-> None] : s \in Statuses \ {200} }
    \cup { [raised |-> TRUE, status |-> 0, page |-> None, exc |-> e] : e \in RaisedExceptions }

\* the exception that reaches "except Exception as e", None when none does
ScrapeException(o) ==
    IF o.raised THEN o.exc
    ELSE IF o.status = 200 THEN None
    ELSE HttpException(o.status)

\* the value scrape_website returns
ScrapeResult(url, o) ==
    IF ScrapeException(o) = None
    THEN [type |-> "dict", url |-> url, title |-> o.page.title, content |-> o.page.content]
    ELSE None

\* an except clause that returns None without recording the failure
ScrapeErrorsUnrecorded(errs, url, o) == errs

\* self.error_urls after scrape_website
ScrapeErrors(errs, url, o) ==
    IF ScrapeException(o) = None THEN errs
    ELSE Put(errs, url, ExcStr(ScrapeException(o)))

\* "if result:" - None is falsy, a non-empty dict is truthy
Truthy(r) == r # None

\* pending_urls: master keys in insertion order, not completed, not errored
RECURSIVE Filter(_, _, _)
Filter(keys, comp, errs) ==
    IF keys = <<>> THEN <<>>
    ELSE IF ~Has(comp, Head(keys)) /\ ~Has(errs, Head(keys))
         THEN <<Head(keys)>> \o Filter(Tail(keys), comp, errs)
         ELSE Filter(Tail(keys), comp, errs)

\* pending_urls without the "url not in self.completed_urls" test
PendingUrlsIgnoringCompleted(master, comp, errs) == Filter(KeyList(master), EmptyDict, errs)

\* pending_urls without the "url not in self.error_urls" test
PendingUrlsIgnoringErrors(master, comp, errs) == Filter(KeyList(master), comp, EmptyDict)

PendingUrls(master, comp, errs) == Filter(KeyList(master), comp, errs)

\* ------------------------------------------------------------------- state
VARIABLES
    masterFile,       \* websites_master.json
    completedFile,    \* websites_completed.json
    errorsFile,       \* websites_errors.json
    outputFile,       \* final_dataset/dataset.jsonl, one record per line
    fileShape,        \* what each store file holds: a JSON dict, a JSON list
                      \* (the empty list) or text that does not parse
    outputDir,        \* the directory final_dataset exists
    num_websites,     \* self.num_websites
    topics,           \* self.topics
    urls_per_topic,   \* self.urls_per_topic
    master_urls,      \* self.master_urls
    completed_urls,   \* self.completed_urls
    error_urls,       \* self.error_urls
    memShape,         \* the Python type of the three objects: dict or list
    pending_urls,     \* pending_urls of process_urls
    topicIdx,         \* position of "for topic in self.topics"
    urlIdx,           \* position of "for url in pending_urls"
    result,           \* result of process_urls
    pc,               \* program position of the running process
    error,            \* the exception that ended the process, "" when none did
    run,              \* history: runs started so far
    runStart,         \* history: the files as the current run found them
    invocation,       \* history: the --topics argument of the current run and
                      \*          what load_topics_from_file returned for it
    searches,         \* history: search requests of the current run, with what
                      \*          the provider yielded and whether it raised
    fetched,          \* history: URLs whose fetch returned in the current run, in order
    prevFetched,      \* history: URLs whose fetch returned in the run before the
                      \*          current one, if that run was killed
    searchedEver,     \* history: topics whose search has returned in some run
    argsUsed,         \* history: the topic lists of the runs so far
    failedNow,        \* history: URLs whose fetch failed in the current run
    failedEver,       \* history: URLs whose fetch has failed in some run
    torn              \* history: URLs whose record was appended by a run
                      \*          killed before it saved the completed store

files == <<masterFile, completedFile, errorsFile, outputFile, fileShape, outputDir>>
memory == <<num_websites, topics, urls_per_topic, master_urls, completed_urls, error_urls,
            memShape, pending_urls, topicIdx, urlIdx, result>>
history == <<run, runStart, invocation, searches, fetched, prevFetched, searchedEver,
            argsUsed, failedNow, failedEver, torn>>
vars == <<files, memory, pc, error, history>>

Stores == {"master", "completed", "errors"}

AllDict == [s \in Stores |-> "dict"]

NoRun == [master |-> EmptyDict, completed |-> EmptyDict,
          errors |-> EmptyDict, output |-> <<>>]

NoInvocation == [cli |-> <<>>, fromFile |-> FALSE, loaded |-> <<>>]

Running == pc \notin {"idle", "done", "fatal"}

\* an empty working directory, no process
Init ==
    /\ masterFile = MissingFile
    /\ completedFile = MissingFile
    /\ errorsFile = MissingFile
    /\ outputFile = <<>>
    /\ fileShape = AllDict
    /\ outputDir = FALSE
    /\ num_websites = 0
    /\ topics = <<>>
    /\ urls_per_topic = 0
    /\ master_urls = EmptyDict
    /\ completed_urls = EmptyDict
    /\ error_urls = EmptyDict
    /\ memShape = AllDict
    /\ pending_urls = <<>>
    /\ topicIdx = 0
    /\ urlIdx = 0
    /\ result = None
    /\ pc = "idle"
    /\ error = ""
    /\ run = 0
    /\ runStart = NoRun
    /\ invocation = NoInvocation
    /\ searches = <<>>
    /\ fetched = <<>>
    /\ prevFetched = {}
    /\ searchedEver = {}
    /\ argsUsed = {}
    /\ failedNow = {}
    /\ failedEver = {}
    /\ torn = {}

\* what a store file is found to be: missing, or the shape of its content
Found(file, shape) == IF file.exists THEN shape ELSE "missing"

\* json.load raises JSONDecodeError on text that does not parse
JsonLoadRaises(file, shape) == file.exists /\ shape = "unparsable"

\* the Python type of what _load_or_create_json returns
LoadedShape(file, shape) == IF file.exists THEN shape ELSE "dict"

\* an exception leaves process_urls and asyncio.run: the process ends with it
Raise(exc) == pc' = "fatal" /\ error' = exc

\* the process is gone, and its memory with it
MemoryLost ==
    /\ num_websites' = 0
    /\ topics' = <<>>
    /\ urls_per_topic' = 0
    /\ master_urls' = EmptyDict
    /\ completed_urls' = EmptyDict
    /\ error_urls' = EmptyDict
    /\ memShape' = AllDict
    /\ pending_urls' = <<>>
    /\ topicIdx' = 0
    /\ urlIdx' = 0
    /\ result' = None

\* discovery entered on every run
NeedsDiscoveryAlways(master) == TRUE

\* "if not self.master_urls": an empty dict is falsy, and so is an empty list
NeedsDiscovery(master) == master = EmptyDict

\* the position after the discovery phase: compute pending_urls, enter the
\* loop; self.master_urls.keys() raises AttributeError on a list
EnterProcessing(master, comp, errs, shape) ==
    IF shape = "list"
    THEN /\ Raise("AttributeError")
         /\ pending_urls' = <<>>
         /\ urlIdx' = 0
    ELSE /\ pending_urls' = PendingUrls(master, comp, errs)
         /\ urlIdx' = 1
         /\ pc' = IF PendingUrls(master, comp, errs) = <<>> THEN "done" ELSE "fetch"
         /\ error' = ""

\* ScrapeMaster(args.websites, topics_str), then process_urls up to its first
\* await
StartRun(numWebsites, arg) ==
    /\ pc \in {"idle", "done", "fatal"}
    /\ run' = run + 1
    /\ outputDir' = TRUE
    /\ runStart' = [master |-> LoadOrCreateJson(masterFile),
                    completed |-> LoadOrCreateJson(completedFile),
                    errors |-> LoadOrCreateJson(errorsFile),
                    output |-> outputFile]
    /\ searches' = <<>>
    /\ fetched' = <<>>
    /\ prevFetched' = IF pc = "done" THEN {} ELSE prevFetched
    /\ argsUsed' = argsUsed \cup {TopicList(arg)}
    /\ failedNow' = {}
    /\ num_websites' = numWebsites
    /\ topics' = TopicList(arg)
    /\ urls_per_topic' = UrlsPerTopic(numWebsites, TopicList(arg))
    /\ result' = None
    /\ IF \/ JsonLoadRaises(masterFile, fileShape.master)
          \/ JsonLoadRaises(completedFile, fileShape.completed)
          \/ JsonLoadRaises(errorsFile, fileShape.errors)
       THEN /\ Raise("JSONDecodeError")
            /\ master_urls' = EmptyDict
            /\ completed_urls' = EmptyDict
            /\ error_urls' = EmptyDict
            /\ memShape' = AllDict
            /\ pending_urls' = <<>>
            /\ topicIdx' = 0
            /\ urlIdx' = 0
       ELSE /\ master_urls' = LoadOrCreateJson(masterFile)
            /\ completed_urls' = LoadOrCreateJson(completedFile)
            /\ error_urls' = LoadOrCreateJson(errorsFile)
            /\ memShape' = [master |-> LoadedShape(masterFile, fileShape.master),
                            completed |-> LoadedShape(completedFile, fileShape.completed),
                            errors |-> LoadedShape(errorsFile, fileShape.errors)]
            /\ IF NeedsDiscovery(LoadOrCreateJson(masterFile))
               THEN /\ pc' = "search"
                    /\ error' = ""
                    /\ topicIdx' = 1
                    /\ pending_urls' = <<>>
                    /\ urlIdx' = 0
               ELSE /\ topicIdx' = 0
                    /\ EnterProcessing(LoadOrCreateJson(masterFile),
                                       LoadOrCreateJson(completedFile),
                                       LoadOrCreateJson(errorsFile),
                                       LoadedShape(masterFile, fileShape.master))
    /\ UNCHANGED <<masterFile, completedFile, errorsFile, outputFile, fileShape,
                   searchedEver, failedEver, torn>>

\* main ends with the exception load_topics_from_file raised: no ScrapeMaster
\* is constructed
MainRaises(exc) ==
    /\ pc \in {"idle", "done", "fatal"}
    /\ run' = run + 1
    /\ Raise(exc)
    /\ MemoryLost
    /\ runStart' = NoRun
    /\ searches' = <<>>
    /\ fetched' = <<>>
    /\ prevFetched' = IF pc = "done" THEN {} ELSE prevFetched
    /\ failedNow' = {}
    /\ UNCHANGED <<files, searchedEver, argsUsed, failedEver, torn>>

\* --topics argument values of any kind: a topic list, the path of a topic
\* file, the path of a file that does not exist
CliTopics == TopicArgs \cup TopicPaths \cup { <<"g", ".", "t", "x", "t">> }

\* ScrapeMaster.load_topics_from_file(args.topics) for each argument value
Loaded == [cli \in CliTopics |-> LoadTopicsFromFile(cli)]

\* main: the --topics argument is read as a topic file when it is the path of
\* an existing file, and as the comma-separated topic list otherwise
Main(numWebsites, cli) ==
    IF Exists(cli)
    THEN LET loaded == Loaded[cli]
         IN  /\ invocation' = [cli |-> cli, fromFile |-> TRUE, loaded |-> loaded.topics]
             /\ IF loaded.raised
                THEN MainRaises(loaded.error)
                ELSE StartRun(numWebsites, Join(loaded.topics))
    ELSE /\ invocation' = [cli |-> cli, fromFile |-> FALSE, loaded |-> <<>>]
         /\ StartRun(numWebsites, cli)

\* urls = await self.search_google(topic, session); self.master_urls[url] = topic
\* (an item assignment with a str index raises TypeError on a list)
SearchTopic ==
    /\ pc = "search"
    /\ \E outcome \in SearchOutcomes(topics[topicIdx], urls_per_topic) :
          /\ searches' = Append(searches, [topic |-> topics[topicIdx],
                                           num_results |-> urls_per_topic,
                                           yielded |-> outcome.yielded,
                                           raised |-> outcome.raised])
          /\ IF memShape.master = "list" /\ SearchGoogleSync(outcome) # <<>>
             THEN /\ Raise("TypeError")
                  /\ master_urls' = master_urls
             ELSE /\ master_urls' = PutAll(master_urls, SearchGoogleSync(outcome),
                                           topics[topicIdx])
                  /\ pc' = "save_master"
                  /\ error' = error
    /\ searchedEver' = searchedEver \cup {topics[topicIdx]}
    /\ UNCHANGED <<files, num_websites, topics, urls_per_topic, completed_urls, error_urls,
                   memShape, pending_urls, topicIdx, urlIdx, result,
                   run, runStart, invocation, fetched, prevFetched, argsUsed, failedNow,
                   failedEver, torn>>

\* the loop over the topics left after the first save
SaveMasterOnce ==
    /\ pc = "save_master"
    /\ masterFile' = JsonDump(master_urls)
    /\ fileShape' = [fileShape EXCEPT !.master = memShape.master]
    /\ topicIdx' = topicIdx
    /\ EnterProcessing(master_urls, completed_urls, error_urls, memShape.master)
    /\ UNCHANGED <<completedFile, errorsFile, outputFile, outputDir, num_websites, topics,
                   urls_per_topic, master_urls, completed_urls, error_urls, memShape,
                   result, history>>

\* json.dump(self.master_urls, ...), the sleep, and the next topic or the
\* pending computation
SaveMaster ==
    /\ pc = "save_master"
    /\ masterFile' = JsonDump(master_urls)
    /\ fileShape' = [fileShape EXCEPT !.master = memShape.master]
    /\ IF topicIdx < Len(topics)
       THEN /\ topicIdx' = topicIdx + 1
            /\ pc' = "search"
            /\ UNCHANGED <<pending_urls, urlIdx, error>>
       ELSE /\ topicIdx' = topicIdx
            /\ EnterProcessing(master_urls, completed_urls, error_urls, memShape.master)
    /\ UNCHANGED <<completedFile, errorsFile, outputFile, outputDir, num_websites, topics,
                   urls_per_topic, master_urls, completed_urls, error_urls, memShape,
                   result, history>>

\* result = await self.scrape_website(url, session); in its except clause
\* self.error_urls[url] = str(e) raises TypeError on a list, and that
\* exception leaves scrape_website
ScrapeWebsite(outcome) ==
    /\ pc = "fetch"
    /\ LET url == pending_urls[urlIdx]
       IN  /\ fetched' = Append(fetched, url)
           /\ failedNow' = IF ScrapeException(outcome) = None
                           THEN failedNow ELSE failedNow \cup {url}
           /\ failedEver' = IF ScrapeException(outcome) = None
                            THEN failedEver ELSE failedEver \cup {url}
           /\ IF ScrapeException(outcome) # None /\ memShape.errors = "list"
              THEN /\ Raise("TypeError")
                   /\ UNCHANGED <<result, error_urls>>
              ELSE /\ result' = ScrapeResult(url, outcome)
                   /\ error_urls' = ScrapeErrors(error_urls, url, outcome)
                   /\ pc' = IF Truthy(ScrapeResult(url, outcome))
                            THEN "append" ELSE "save_completed"
                   /\ error' = error
    /\ UNCHANGED <<files, num_websites, topics, urls_per_topic, master_urls, completed_urls,
                   memShape, pending_urls, topicIdx, urlIdx, run, runStart, invocation,
                   searches, prevFetched, searchedEver, argsUsed, torn>>

\* the result is recorded as completed and the record is not written
AppendResultUnwritten ==
    /\ pc = "append"
    /\ completed_urls' = Put(completed_urls, pending_urls[urlIdx], result)
    /\ pc' = "save_completed"
    /\ UNCHANGED <<files, num_websites, topics, urls_per_topic,
                   master_urls, error_urls, memShape, pending_urls, topicIdx, urlIdx, result,
                   error, history>>

\* self.completed_urls[url] = result (TypeError on a list), then
\* f.write(json.dumps(result) + '\n')
AppendResult ==
    /\ pc = "append"
    /\ IF memShape.completed = "list"
       THEN /\ Raise("TypeError")
            /\ UNCHANGED <<completed_urls, outputFile>>
       ELSE /\ completed_urls' = Put(completed_urls, pending_urls[urlIdx], result)
            /\ outputFile' = Append(outputFile, result)
            /\ pc' = "save_completed"
            /\ error' = error
    /\ UNCHANGED <<masterFile, completedFile, errorsFile, fileShape, outputDir,
                   num_websites, topics, urls_per_topic,
                   master_urls, error_urls, memShape, pending_urls, topicIdx, urlIdx, result,
                   history>>

\* the completed store is not written
SaveCompletedSkipped ==
    /\ pc = "save_completed"
    /\ pc' = "save_errors"
    /\ UNCHANGED <<files, memory, error, history>>

\* json.dump(self.completed_urls, ...)
SaveCompleted ==
    /\ pc = "save_completed"
    /\ completedFile' = JsonDump(completed_urls)
    /\ fileShape' = [fileShape EXCEPT !.completed = memShape.completed]
    /\ pc' = "save_errors"
    /\ UNCHANGED <<masterFile, errorsFile, outputFile, outputDir, memory, error, history>>

\* the failed store is not written
SaveErrorsSkipped ==
    /\ pc = "save_errors"
    /\ IF urlIdx < Len(pending_urls)
       THEN urlIdx' = urlIdx + 1 /\ pc' = "fetch"
       ELSE urlIdx' = urlIdx /\ pc' = "done"
    /\ UNCHANGED <<files, num_websites, topics, urls_per_topic,
                   master_urls, completed_urls, error_urls, memShape, pending_urls, topicIdx,
                   result, error, history>>

\* json.dump(self.error_urls, ...), the sleep, and the next url or the end
SaveErrors ==
    /\ pc = "save_errors"
    /\ errorsFile' = JsonDump(error_urls)
    /\ fileShape' = [fileShape EXCEPT !.errors = memShape.errors]
    /\ IF urlIdx < Len(pending_urls)
       THEN urlIdx' = urlIdx + 1 /\ pc' = "fetch"
       ELSE urlIdx' = urlIdx /\ pc' = "done"
    /\ UNCHANGED <<masterFile, completedFile, outputFile, outputDir, num_websites, topics,
                   urls_per_topic, master_urls, completed_urls, error_urls, memShape,
                   pending_urls, topicIdx, result, error, history>>

\* the process is killed where it stands: the files stay, its memory is gone
Kill ==
    /\ Running
    /\ pc' = "idle"
    /\ MemoryLost
    /\ torn' = IF pc = "save_completed" /\ Truthy(result)
               THEN torn \cup {pending_urls[urlIdx]} ELSE torn
    /\ runStart' = NoRun
    /\ invocation' = NoInvocation
    /\ searches' = <<>>
    /\ fetched' = <<>>
    /\ prevFetched' = { fetched[i] : i \in DOMAIN fetched }
    /\ failedNow' = {}
    /\ UNCHANGED <<files, error, run, searchedEver, argsUsed, failedEver>>

\* one step of the coroutine process_urls: asyncio.run drives it to its end,
\* every search returns or raises (run_in_executor) and every session.get
\* returns or raises within timeout=30
Step ==
    \/ SearchTopic
    \/ SaveMaster
    \/ \E o \in FetchOutcomes : ScrapeWebsite(o)
    \/ AppendResult
    \/ SaveCompleted
    \/ SaveErrors

\* the program run up to MaxRuns times with a comma-separated topic list
Next ==
    \/ \E n \in 0..MaxWebsites, arg \in TopicArgs : run < MaxRuns /\ Main(n, arg)
    \/ SearchTopic
    \/ SaveMaster
    \/ \E o \in FetchOutcomes : ScrapeWebsite(o)
    \/ AppendResult
    \/ SaveCompleted
    \/ SaveErrors
    \/ Kill

Spec == Init /\ [][Next]_vars

\* the program run up to MaxLiveRuns times
NextLive ==
    \/ \E n \in 0..MaxWebsites, arg \in TopicArgs : run < MaxLiveRuns /\ Main(n, arg)
    \/ Step
    \/ Kill

\* the runs under the event loop's scheduling: a process that is not killed
\* takes its next step
SpecLive == Init /\ [][NextLive]_vars /\ WF_vars(Step)

\* what may have happened to a store file since the program wrote it: nothing,
\* it was removed, it was replaced by the JSON list [], or it was cut down to
\* text that does not parse
Damages == {"kept", "removed", "list", "unparsable"}

Damaged(file, damage) ==
    IF damage = "kept" THEN file
    ELSE IF damage = "removed" THEN MissingFile
    ELSE JsonDump(EmptyDict)

DamagedShape(damage) == IF damage \in {"list", "unparsable"} THEN damage ELSE "dict"

\* the record of the page at u1
Record1 == [type |-> "dict", url |-> "u1", title |-> "T", content |-> "c2"]

\* the working directory a run over topic a left after it discovered u1 and
\* u2 and completed u1, each store file then damaged or not; no process
InitLoad ==
    /\ \E dm \in Damages, dc \in Damages, de \in Damages :
          /\ masterFile = Damaged(JsonDump(<<[k |-> "u1", v |-> <<"a">>],
                                             [k |-> "u2", v |-> <<"a">>]>>), dm)
          /\ completedFile = Damaged(JsonDump(<<[k |-> "u1", v |-> Record1]>>), dc)
          /\ errorsFile = Damaged(JsonDump(EmptyDict), de)
          /\ fileShape = [master |-> DamagedShape(dm), completed |-> DamagedShape(dc),
                          errors |-> DamagedShape(de)]
    /\ outputFile = <<Record1>>
    /\ outputDir = TRUE
    /\ num_websites = 0
    /\ topics = <<>>
    /\ urls_per_topic = 0
    /\ master_urls = EmptyDict
    /\ completed_urls = EmptyDict
    /\ error_urls = EmptyDict
    /\ memShape = AllDict
    /\ pending_urls = <<>>
    /\ topicIdx = 0
    /\ urlIdx = 0
    /\ result = None
    /\ pc = "idle"
    /\ error = ""
    /\ run = 0
    /\ runStart = NoRun
    /\ invocation = NoInvocation
    /\ searches = <<>>
    /\ fetched = <<>>
    /\ prevFetched = {}
    /\ searchedEver = {}
    /\ argsUsed = {}
    /\ failedNow = {}
    /\ failedEver = {}
    /\ torn = {}

\* the program run up to MaxLoadRuns times
NextLoad ==
    \/ \E n \in 0..MaxWebsites, arg \in TopicArgs : run < MaxLoadRuns /\ Main(n, arg)
    \/ Step
    \/ Kill

SpecLoad == InitLoad /\ [][NextLoad]_vars

\* the program run up to MaxMainRuns times, each run to its end
NextMain ==
    \/ \E n \in 0..MaxWebsites, cli \in CliTopics : run < MaxMainRuns /\ Main(n, cli)
    \/ Step

SpecMain == Init /\ [][NextMain]_vars

\* ================================================================== claims
\* records of url in the output file
Count(url, out) == Cardinality({ i \in DOMAIN out : out[i].url = url })

Range(q) == { q[i] : i \in DOMAIN q }

NoDuplicates(q) == \A i, j \in DOMAIN q : q[i] = q[j] => i = j

\* the current run found a non-empty discovered store
Resumed == pc # "idle" /\ runStart.master # EmptyDict

\* ---------------------------------------------------------------------- C1
\* C1 as stated: after any number of runs, interrupted anywhere or not, every
\* URL of the persisted completed set has exactly one record in dataset.jsonl.
C1_ExactlyOneRecord ==
    ~Running => \A u \in Keys(completedFile.data) : Count(u, outputFile) = 1

\* C1 amended: every URL of the persisted completed set has at least one
\* record in dataset.jsonl, and exactly one unless some run was killed after
\* appending that URL's record and before saving the completed store.
C1_OneRecordUnlessTorn ==
    \A u \in Keys(completedFile.data) :
        /\ Count(u, outputFile) >= 1
        /\ u \notin torn => Count(u, outputFile) = 1

\* a resumed run has completed a further URL and ended
C1_Witness ==
    /\ pc = "done"
    /\ run >= 2
    /\ runStart.completed # EmptyDict
    /\ \E u \in Keys(completedFile.data) \ Keys(runStart.completed) :
          Count(u, outputFile) = 1

\* ---------------------------------------------------------------------- C2
\* C2: no URL is a key of both the completed set and the failed set, in the
\* memory of the process and in the persisted stores.
C2_Exclusive ==
    /\ Keys(completed_urls) \cap Keys(error_urls) = {}
    /\ Keys(completedFile.data) \cap Keys(errorsFile.data) = {}

\* both persisted stores are non-empty after a kill and a resumed run
C2_Witness ==
    /\ run >= 2
    /\ pc = "done"
    /\ fetched # <<>>
    /\ Keys(completedFile.data) # {}
    /\ Keys(errorsFile.data) # {}

\* ---------------------------------------------------------------------- C3
\* C3: a run that finds N discovered URLs, K of them completed and F failed,
\* searches nothing and fetches exactly the N-K-F remaining URLs, each once,
\* and no other URL.
C3_Resumability ==
    Resumed =>
        LET N == Cardinality(Keys(runStart.master))
            K == Cardinality(Keys(runStart.completed))
            F == Cardinality(Keys(runStart.errors))
            remaining == Keys(runStart.master)
                           \ (Keys(runStart.completed) \cup Keys(runStart.errors))
        IN  /\ searches = <<>>
            /\ NoDuplicates(fetched)
            /\ Range(fetched) \subseteq remaining
            /\ pc = "done" => /\ Range(fetched) = remaining
                              /\ Len(fetched) = N - K - F

\* a run that found one URL completed, one failed and one left has ended
C3_Witness ==
    /\ Resumed
    /\ pc = "done"
    /\ Keys(runStart.completed) # {}
    /\ Keys(runStart.errors) # {}
    /\ Len(fetched) = 1

\* ---------------------------------------------------------------------- C4
\* C4: a run that finds a non-empty discovered store makes no search and
\* leaves the discovered set as it found it, in memory and on disk, whatever
\* its topic list and requested count are.
C4_DiscoverySkipped ==
    Resumed =>
        /\ searches = <<>>
        /\ master_urls = runStart.master
        /\ masterFile = JsonDump(runStart.master)

\* a run with topic list [a] and count 0 has ended over a discovered store
\* that holds a URL of topic b
C4_Witness ==
    /\ Resumed
    /\ pc = "done"
    /\ topics = << <<"a">> >>
    /\ num_websites = 0
    /\ \E i \in DOMAIN masterFile.data : masterFile.data[i].v = <<"b">>

\* ---------------------------------------------------------------------- C5
\* C5 as stated: when the fetch of a pending URL fails the run goes on to
\* every later pending URL, the URL is in the failed set, it is not in the
\* completed set and dataset.jsonl holds no record of it.
C5_FailureIsolationNoRecord ==
    /\ \A u \in failedNow :
          /\ Has(error_urls, u)
          /\ ~Has(completed_urls, u)
          /\ Count(u, outputFile) = 0
          /\ pc = "done" => Has(errorsFile.data, u) /\ ~Has(completedFile.data, u)
    /\ pc = "done" => fetched = pending_urls

\* C5 amended: when the fetch of a pending URL fails the run goes on to
\* every later pending URL, the URL is in the failed set, it is not in the
\* completed set and the run appends no record of it to dataset.jsonl (a
\* record appended by an earlier run that was killed before saving the
\* completed store stays).
C5_FailureIsolation ==
    /\ \A u \in failedNow :
          /\ Has(error_urls, u)
          /\ ~Has(completed_urls, u)
          /\ Count(u, outputFile) = Count(u, runStart.output)
          /\ pc = "done" => Has(errorsFile.data, u) /\ ~Has(completedFile.data, u)
    /\ pc = "done" => fetched = pending_urls

\* a run has ended in which a fetch failed and a later URL was fetched
C5_Witness ==
    /\ pc = "done"
    /\ \E i, j \in DOMAIN fetched :
          /\ i < j
          /\ fetched[i] \in failedNow
          /\ Has(completedFile.data, fetched[j])

\* ---------------------------------------------------------------------- C6
\* C6: every reason string in the failed set is non-empty.
C6_ReasonNonEmpty ==
    /\ \A i \in DOMAIN error_urls : Len(error_urls[i].v) > 0
    /\ \A i \in DOMAIN errorsFile.data : Len(errorsFile.data[i].v) > 0

\* ---------------------------------------------------------------------- C7
\* the step is the return of a fetch of u
FetchOf(u) == Len(fetched') = Len(fetched) + 1 /\ fetched'[Len(fetched')] = u

\* C7 as stated: a URL whose fetch has failed is never fetched again, in the
\* same run or in a later one, however the runs end.
C7_NeverFetchedAgain ==
    [][\A u \in failedEver : ~FetchOf(u)]_vars

\* C7 amended: a URL whose fetch has failed is never fetched again in the
\* same run, nor in any later run once the failed store that holds it has
\* been saved (a run killed after the failed fetch and before that save loses
\* the failure, and the next run fetches the URL again).
C7_NeverFetchedAgainOnceRecorded ==
    [][\A u \in Keys(error_urls) \cup Keys(errorsFile.data) : ~FetchOf(u)]_vars

\* a resumed run has fetched some URL and left alone one that had failed
C7_Witness ==
    /\ Resumed
    /\ pc = "done"
    /\ fetched # <<>>
    /\ \E u \in Keys(runStart.errors) : u \in failedEver /\ u \notin Range(fetched)

\* ---------------------------------------------------------------------- C8
\* C8: urls_per_topic is the integer quotient of the requested total T by the
\* topic count C (3 for T = 10 and C = 3), every search requests that many
\* results, and discovery leaves at most C * (T div C) <= T URLs in the
\* discovered set.
C8_DivisionRemainder ==
    /\ UrlsPerTopic(10, << <<"a">>, <<"b">>, <<"c">> >>) = 3
    /\ pc # "idle" =>
        LET T == num_websites
            C == Len(topics)
        IN  /\ C >= 1
            /\ urls_per_topic * C <= T
            /\ T < (urls_per_topic + 1) * C
            /\ \A i \in DOMAIN searches : searches[i].num_results = urls_per_topic
            /\ ~Resumed =>
                  /\ Cardinality(Keys(master_urls)) <= C * urls_per_topic
                  /\ Cardinality(Keys(masterFile.data)) <= C * urls_per_topic
                  /\ C * urls_per_topic <= T

\* 3 websites over 2 topics: 1 per topic, both searched, 2 URLs discovered
C8_Witness ==
    /\ ~Resumed
    /\ pc = "done"
    /\ num_websites = 3
    /\ Len(topics) = 2
    /\ urls_per_topic = 1
    /\ Len(searches) = 2
    /\ Cardinality(Keys(masterFile.data)) = 2

\* ---------------------------------------------------------------------- C9
\* every entry of d is an entry of e, with the same value
Preserved(d, e) == \A i \in DOMAIN d : Has(e, d[i].k) /\ Get(e, d[i].k) = d[i].v

\* C9: no step removes an entry of the completed set or changes its value:
\* in the persisted store over all runs, in memory as long as the process
\* lives.
C9_CompletedWriteOnce ==
    [][/\ Preserved(completedFile.data, completedFile'.data)
       /\ pc' # "idle" => Preserved(completed_urls, completed_urls')]_vars

\* a resumed run that found completed URLs has saved a further one
C9_Witness ==
    /\ Resumed
    /\ runStart.completed # EmptyDict
    /\ Len(completedFile.data) > Len(runStart.completed)

\* --------------------------------------------------------------------- C10
\* C10: every key of the completed set and of the failed set is a key of the
\* discovered set, in memory and in the persisted stores, and no step removes
\* a key from the discovered set (on disk over all runs, in memory as long as
\* the process lives).
C10_DiscoveredSuperset ==
    /\ [](/\ Keys(completed_urls) \cup Keys(error_urls) \subseteq Keys(master_urls)
          /\ Keys(completedFile.data) \cup Keys(errorsFile.data)
                \subseteq Keys(masterFile.data))
    /\ [][/\ Keys(masterFile.data) \subseteq Keys(masterFile'.data)
          /\ pc' # "idle" => Keys(master_urls) \subseteq Keys(master_urls')]_vars

\* a resumed run has ended with completed, failed and discovered URLs on disk
C10_Witness ==
    /\ Resumed
    /\ pc = "done"
    /\ fetched # <<>>
    /\ Keys(completedFile.data) # {}
    /\ Keys(errorsFile.data) # {}
    /\ Cardinality(Keys(masterFile.data)) = 3


\* --------------------------------------------------------------------- C14
\* C14: a topic whose search raises, at once or after yielding some results,
\* contributes no URL to the discovered set; the other topics are searched
\* all the same, in the order of the topic list, and the run enters the
\* processing phase only after the last of them.
C14_DiscoveryErrorNotFatal ==
    (pc # "idle" /\ ~Resumed) =>
        /\ Keys(master_urls) =
              UNION { Range(searches[i].yielded) :
                        i \in { j \in DOMAIN searches : ~searches[j].raised } }
        /\ Len(searches) <= Len(topics)
        /\ \A i \in DOMAIN searches : searches[i].topic = topics[i]
        /\ pc = "search" => Len(searches) = topicIdx - 1
        /\ pc \in {"fetch", "append", "save_completed", "save_errors", "done"}
              => Len(searches) = Len(topics)

\* the first search raised after yielding a URL, the second returned one, and
\* the run has fetched and ended
C14_Witness ==
    /\ pc = "done"
    /\ ~Resumed
    /\ Len(searches) = 2
    /\ searches[1].raised /\ searches[1].yielded # <<>>
    /\ ~searches[2].raised /\ searches[2].yielded # <<>>
    /\ fetched # <<>>


\* --------------------------------------------------------------------- C16
RECURSIVE Yields(_)
\* the URLs the searches 1..n of the current run returned, in order
Yields(n) ==
    IF n = 0 THEN <<>>
    ELSE Yields(n - 1) \o (IF searches[n].raised THEN <<>> ELSE searches[n].yielded)

RECURSIVE FirstOccurrences(_)
\* q without the later occurrences of its elements
FirstOccurrences(q) ==
    IF q = <<>> THEN <<>>
    ELSE LET front == FirstOccurrences(SubSeq(q, 1, Len(q) - 1))
         IN  IF q[Len(q)] \in Range(front) THEN front ELSE Append(front, q[Len(q)])

\* the topic of the last search of the current run that returned u
LastTopic(u) ==
    LET hits == { i \in DOMAIN searches :
                    ~searches[i].raised /\ u \in Range(searches[i].yielded) }
    IN  searches[CHOOSE i \in hits : \A j \in hits : j <= i].topic

\* position of key u in the mapping d
Pos(d, u) == CHOOSE i \in DOMAIN d : d[i].k = u

\* C16: the pending URLs are fetched one at a time in the order in which
\* their keys were first inserted into the discovered set; a URL returned
\* again under a later topic gets that topic and keeps its position.
C16_ProcessingOrder ==
    pc # "idle" =>
        /\ ~Resumed =>
              /\ KeyList(master_urls) = FirstOccurrences(Yields(Len(searches)))
              /\ \A u \in Keys(master_urls) : Get(master_urls, u) = LastTopic(u)
        /\ Len(fetched) <= Len(pending_urls)
        /\ \A i \in DOMAIN fetched : fetched[i] = pending_urls[i]
        /\ \A i, j \in DOMAIN fetched :
              i < j => Pos(master_urls, fetched[i]) < Pos(master_urls, fetched[j])
        /\ pc = "fetch" => Len(fetched) = urlIdx - 1
        /\ pc \in {"append", "save_completed", "save_errors"} => Len(fetched) = urlIdx

\* u2 came under topic b, then u1 and u2 under topic a: u2 has topic a, is
\* still first, and was fetched before u1
C16_Witness ==
    /\ pc = "done"
    /\ ~Resumed
    /\ Len(searches) = 2
    /\ searches[1].yielded = <<"u2">> /\ ~searches[1].raised
    /\ searches[2].yielded = <<"u1", "u2">> /\ ~searches[2].raised
    /\ KeyList(master_urls) = <<"u2", "u1">>
    /\ Get(master_urls, "u2") = <<"a">>
    /\ fetched = <<"u2", "u1">>


\* --------------------------------------------------------------------- C17
\* C17: at every point of every run, every URL that is a key of the
\* persisted completed store has a record in dataset.jsonl.
C17_CompletedHasRecord ==
    \A u \in Keys(completedFile.data) :
        \E i \in DOMAIN outputFile : outputFile[i].url = u

\* between the append of a record and the save of the completed store, with
\* another URL already in the store
C17_Witness ==
    /\ pc = "save_completed"
    /\ Truthy(result)
    /\ Keys(completedFile.data) # {}
    /\ pending_urls[urlIdx] \notin Keys(completedFile.data)
    /\ \E i \in DOMAIN outputFile : outputFile[i].url = pending_urls[urlIdx]


\* --------------------------------------------------------------------- C18
\* C18: a run that follows a killed run fetches again at most one of the
\* URLs whose fetch had returned in the killed run.
C18_AtMostOneRefetched ==
    Cardinality(Range(fetched) \cap prevFetched) <= 1

\* the killed run had two fetches returned; the next run fetched one of them
\* again and ended
C18_Witness ==
    /\ pc = "done"
    /\ Cardinality(prevFetched) >= 2
    /\ Cardinality(Range(fetched) \cap prevFetched) = 1


Partitioned(master, comp, errs) ==
    \A u \in Keys(master) : Has(comp, u) # Has(errs, u)

\* C15: every run that is not killed reaches DONE, and at DONE nothing is
\* pending: every URL of the discovered set is a key of exactly one of the
\* completed set and the failed set, in memory and in the persisted stores.
C15_Completion ==
    /\ Running ~> (pc = "done" \/ pc = "idle")
    /\ [](pc = "done" =>
            /\ PendingUrls(master_urls, completed_urls, error_urls) = <<>>
            /\ Partitioned(master_urls, completed_urls, error_urls)
            /\ Keys(masterFile.data) = Keys(master_urls)
            /\ Partitioned(masterFile.data, completedFile.data, errorsFile.data))

\* a run that searched two topics and fetched three URLs, one of them without
\* success, has reached DONE
C15_Witness ==
    /\ pc = "done"
    /\ Len(searches) = 2
    /\ Len(fetched) = 3
    /\ failedNow # {}
    /\ Keys(completedFile.data) # {}


\* --------------------------------------------------------------------- C11
\* the step starts a run
Startup == run' = run + 1

\* the store file exists and does not hold a mapping
NotMapping(file, shape) == Found(file, shape) \in {"list", "unparsable"}

\* C11: at startup each store that is missing is loaded as the empty mapping,
\* and a store that exists and is not a mapping (text that does not parse, a
\* list) makes the startup fail, with no fetch attempted and no store or
\* output record written.
C11_StoreLoading ==
    /\ [][Startup =>
            /\ pc' # "fatal" =>
                  /\ ~masterFile.exists =>
                        master_urls' = EmptyDict /\ memShape'.master = "dict"
                  /\ ~completedFile.exists =>
                        completed_urls' = EmptyDict /\ memShape'.completed = "dict"
                  /\ ~errorsFile.exists =>
                        error_urls' = EmptyDict /\ memShape'.errors = "dict"
            /\ (\/ NotMapping(masterFile, fileShape.master)
                \/ NotMapping(completedFile, fileShape.completed)
                \/ NotMapping(errorsFile, fileShape.errors))
                  => /\ pc' = "fatal"
                     /\ UNCHANGED <<masterFile, completedFile, errorsFile, outputFile,
                                    fileShape>>]_vars
    /\ [](pc = "fatal" => fetched = <<>>)

\* --------------------------------------------------------------------- C12
\* the extensions load_topics_from_file reads
SupportedSuffixes ==
    { <<".", "j", "s", "o", "n">>, <<".", "y", "a", "m", "l">>, <<".", "y", "m", "l">>,
      <<".", "t", "x", "t">>, <<".", "m", "d">> }

\* the path of an existing file with another extension
UnsupportedFile(cli) == Exists(cli) /\ Suffix(cli) \notin SupportedSuffixes

\* C12: a run whose --topics argument is the path of an existing file with an
\* unsupported extension ends at once in the unsupported-format error; it
\* creates or changes no store file, no output directory and no output
\* record, and it searches and fetches nothing.
C12_UnsupportedTopicFile ==
    /\ [][(Startup /\ UnsupportedFile(invocation'.cli)) =>
            /\ pc' = "fatal"
            /\ error' = "ValueError: Unsupported file format: "
                            \o Text(Suffix(invocation'.cli))
            /\ UNCHANGED <<masterFile, completedFile, errorsFile, outputFile,
                           fileShape, outputDir>>]_vars
    /\ []((pc # "idle" /\ UnsupportedFile(invocation.cli)) =>
            /\ pc = "fatal"
            /\ searches = <<>>
            /\ fetched = <<>>)

\* the first run was given t.csv: it has ended in the error, and there is no
\* store file and no output directory
C12_Witness ==
    /\ pc = "fatal"
    /\ invocation.cli = <<"t", ".", "c", "s", "v">>
    /\ error = "ValueError: Unsupported file format: .csv"
    /\ ~outputDir
    /\ ~masterFile.exists /\ ~completedFile.exists /\ ~errorsFile.exists
    /\ outputFile = <<>>

\* --------------------------------------------------------------------- C13
\* an argument with the extension of a topic file, and no file at that path
ReferencesMissingFile(cli) == ~Exists(cli) /\ Suffix(cli) \in SupportedSuffixes

\* C13: a run whose --topics argument references a file that does not exist
\* ends in the not-found error, and searches and fetches nothing.
C13_MissingTopicFile ==
    (pc # "idle" /\ ReferencesMissingFile(invocation.cli)) =>
        /\ pc = "fatal"
        /\ error = "FileNotFoundError: File not found: " \o Text(invocation.cli)
        /\ searches = <<>>
        /\ fetched = <<>>

\* --------------------------------------------------------------------- C20
\* C20: when the topics come from a topic file, the topic list of the
\* orchestrator has the length of the list load_topics_from_file returned and
\* its topics in its order, up to whitespace trimming, and urls_per_topic is
\* the requested total divided by the number of topics of the file.
C20_TopicListRoundTrip ==
    (pc \notin {"idle", "fatal"} /\ invocation.fromFile) =>
        /\ Len(topics) = Len(invocation.loaded)
        /\ topics = [i \in DOMAIN invocation.loaded |-> Strip(invocation.loaded[i])]
        /\ urls_per_topic = num_websites \div Len(invocation.loaded)

====
